---- MODULE Spec2Model ----
(***************************************************************************)
(* sitetools/environ.py: freeze() records the current value (or absence)   *)
(* of named environment variables in a JSON object stored under the        *)
(* variable PYTHONENVIRONDIFF of the same mapping; apply_diff() pops that  *)
(* variable from the live environment and sets or removes every recorded   *)
(* variable.                                                               *)
(*                                                                         *)
(* Text is a sequence of one-character strings.  A mapping (a dict, or     *)
(* os.environ) is a function whose DOMAIN is the set of keys present.      *)
(***************************************************************************)
EXTENDS Integers, Sequences, FiniteSets, TLC

(***************************************************************************)
(* Bounds of the model.                                                    *)
(***************************************************************************)
\* apply_diff calls in a behaviour
MaxApply == 2

(***************************************************************************)
(* Names and values.                                                       *)
(***************************************************************************)
VARIABLE_NAME == <<"P","Y","T","H","O","N","E","N","V","I","R","O","N","D","I","F","F">>

\* ordinary variable names a launcher passes to freeze
Names == {<<"A">>, <<"B">>, <<"C">>}

\* the names of the two-variable scenarios
TwoNames == {<<"A">>, <<"B">>}

\* sample values of ordinary variables (ASCII text): the empty string, and
\* one made of the two characters JSON has to escape
Values == {<<>>, <<"\"", "\\">>}

\* reserved-key texts an inherited environment may hold that no freeze wrote:
\* the empty string, "{" (not JSON), "[]" and "7" (JSON, but no object)
ForeignBlobs == {<<>>, <<"{">>, <<"[", "]">>, <<"7">>}

(***************************************************************************)
(* Python values that json.loads returns and environ.get yields.           *)
(***************************************************************************)
None == [t |-> "none"]
Str(s) == [t |-> "str", s |-> s]
Num(s) == [t |-> "num", s |-> s]
List == [t |-> "list"]
Dict(m) == [t |-> "dict", m |-> m]
\* raised by json.loads on text that is not JSON
ValueError == [t |-> "ValueError"]

EmptyMap == [k \in {} |-> None]

\* environ.get(name, '') in place of environ.get(name)
GetOrEmpty(environ, name) ==
    IF name \in DOMAIN environ THEN Str(environ[name]) ELSE Str(<<>>)

\* dict.get(key), default None
Get(environ, name) ==
    IF name \in DOMAIN environ THEN Str(environ[name]) ELSE None

\* dict[key] = value
Put(m, k, v) == [x \in DOMAIN m \cup {k} |-> IF x = k THEN v ELSE m[x]]

\* dict.pop(key, None)
Pop(m, k) == [x \in DOMAIN m \ {k} |-> m[x]]

\* truth value of a Python object (`if blob`, `if diff`)
Truthy(j) ==
    CASE j.t = "none" -> FALSE
      [] j.t = "list" -> FALSE
      [] j.t = "num"  -> j.s # <<"0">>
      [] j.t = "str"  -> j.s # <<>>
      [] j.t = "dict" -> DOMAIN j.m # {}
      [] OTHER        -> FALSE

(***************************************************************************)
(* json.dumps                                                              *)
(***************************************************************************)
\* a string written between quotes as it is
EscapeNothing(s) == s

RECURSIVE Escape(_)
Escape(s) ==
    IF s = <<>> THEN <<>>
    ELSE IF Head(s) \in {"\"", "\\"}
         THEN <<"\\", Head(s)>> \o Escape(Tail(s))
         ELSE <<Head(s)>> \o Escape(Tail(s))

Quote(s) == <<"\"">> \o Escape(s) \o <<"\"">>

\* one member value of the object: a string or null
DumpsValue(v) ==
    IF v.t = "none" THEN <<"n", "u", "l", "l">>
    ELSE IF v.t = "num" THEN v.s
    ELSE Quote(v.s)

\* the members of a dict in the order `keys` (the dict's iteration order)
RECURSIVE DumpsMembers(_, _)
DumpsMembers(m, keys) ==
    IF keys = <<>> THEN <<>>
    ELSE Quote(Head(keys)) \o <<":", " ">> \o DumpsValue(m[Head(keys)])
         \o (IF Tail(keys) = <<>> THEN <<>> ELSE <<",", " ">>)
         \o DumpsMembers(m, Tail(keys))

\* json.dumps(obj); keys is the iteration order of obj when it is a dict
Dumps(j, keys) ==
    CASE j.t = "dict" -> <<"{">> \o DumpsMembers(j.m, keys) \o <<"}">>
      [] j.t = "list" -> <<"[", "]">>
      [] j.t = "none" -> <<"n", "u", "l", "l">>
      [] j.t = "num"  -> j.s
      [] OTHER        -> Quote(j.s)

(***************************************************************************)
(* json.loads                                                              *)
(***************************************************************************)
Digits == {"0", "1", "2", "3", "4", "5", "6", "7", "8", "9"}

Fail == [ok |-> FALSE, val |-> None, next |-> 0]
Ok(v, i) == [ok |-> TRUE, val |-> v, next |-> i]

RECURSIVE SkipWs(_, _)
SkipWs(s, i) == IF i <= Len(s) /\ s[i] = " " THEN SkipWs(s, i + 1) ELSE i

\* the characters of a string literal after its opening quote
RECURSIVE ScanString(_, _, _)
ScanString(s, i, acc) ==
    IF i > Len(s) THEN Fail
    ELSE IF s[i] = "\"" THEN Ok(Str(acc), i + 1)
    ELSE IF s[i] = "\\"
         THEN IF i + 1 <= Len(s) /\ s[i + 1] \in {"\"", "\\"}
              THEN ScanString(s, i + 2, Append(acc, s[i + 1]))
              ELSE Fail
         ELSE ScanString(s, i + 1, Append(acc, s[i]))

\* the digits of an integer; a leading zero ends the number
RECURSIVE ScanNumber(_, _, _)
ScanNumber(s, i, acc) ==
    IF i <= Len(s) /\ s[i] \in Digits /\ acc # <<"0">>
    THEN ScanNumber(s, i + 1, Append(acc, s[i]))
    ELSE Ok(Num(acc), i)

IsNull(s, i) ==
    /\ i + 3 <= Len(s)
    /\ SubSeq(s, i, i + 3) = <<"n", "u", "l", "l">>

\* a string, a number or null
ScanScalar(s, i) ==
    IF i > Len(s) THEN Fail
    ELSE IF s[i] = "\"" THEN ScanString(s, i + 1, <<>>)
    ELSE IF s[i] \in Digits THEN ScanNumber(s, i, <<>>)
    ELSE IF IsNull(s, i) THEN Ok(None, i + 4)
    ELSE Fail

\* the members of an object after "{" or ","; a repeated key keeps the last
RECURSIVE ScanMembers(_, _, _)
ScanMembers(s, i, m) ==
    LET k == IF i <= Len(s) /\ s[i] = "\"" THEN ScanString(s, i + 1, <<>>) ELSE Fail
    IN  IF ~k.ok THEN Fail
        ELSE LET c == SkipWs(s, k.next)
             IN  IF ~(c <= Len(s) /\ s[c] = ":") THEN Fail
                 ELSE LET v == ScanScalar(s, SkipWs(s, c + 1))
                      IN  IF ~v.ok THEN Fail
                          ELSE LET e  == SkipWs(s, v.next)
                                   m2 == Put(m, k.val.s, v.val)
                               IN  IF e > Len(s) THEN Fail
                                   ELSE IF s[e] = "}" THEN Ok(Dict(m2), e + 1)
                                   ELSE IF s[e] = ","
                                        THEN ScanMembers(s, SkipWs(s, e + 1), m2)
                                        ELSE Fail

ScanValue(s, i) ==
    IF i > Len(s) THEN Fail
    ELSE IF s[i] = "{"
         THEN LET j == SkipWs(s, i + 1)
              IN  IF j <= Len(s) /\ s[j] = "}" THEN Ok(Dict(EmptyMap), j + 1)
                  ELSE ScanMembers(s, j, EmptyMap)
    ELSE IF s[i] = "["
         THEN LET j == SkipWs(s, i + 1)
              IN  IF j <= Len(s) /\ s[j] = "]" THEN Ok(List, j + 1) ELSE Fail
    ELSE ScanScalar(s, i)

\* json.loads(blob): the value, or ValueError
Loads(blob) ==
    LET r == ScanValue(blob, SkipWs(blob, 1))
    IN  IF r.ok /\ SkipWs(blob, r.next) > Len(blob) THEN r.val ELSE ValueError

(***************************************************************************)
(* The functions of environ.py.                                            *)
(***************************************************************************)
\* the orders in which a dict with key set S may be iterated
Perms(S) ==
    {s \in [1..Cardinality(S) -> S] : \A i, j \in 1..Cardinality(S) : i # j => s[i] # s[j]}

\* the names arguments a launcher passes to freeze: the names of N, in any
\* number and order
NameSeqs(N) == UNION {Perms(S) : S \in SUBSET N}

\* the names in a names argument
Range(names) == {names[i] : i \in 1..Len(names)}

IsError(j) == j.t \in {"ValueError", "TypeError", "AttributeError"}

\* `_loads(blob)` without the test of blob: json.loads(None) is a TypeError
BlobDiffNoGuard(blob) ==
    IF blob.t = "str" THEN Loads(blob.s) ELSE [t |-> "TypeError"]

\* a decoding error caught and taken for an empty diff
BlobDiffSwallow(blob) ==
    IF Truthy(blob) /\ Loads(blob.s) # ValueError THEN Loads(blob.s) ELSE Dict(EmptyMap)

\* `_loads(blob) if blob else {}`, blob being environ.get or os.environ.pop
BlobDiff(blob) == IF Truthy(blob) THEN Loads(blob.s) ELSE Dict(EmptyMap)

\* the existing diff taken for empty when it does not decode
ExistingDiffSwallow(environ) ==
    LET blob == Get(environ, VARIABLE_NAME)
    IN  IF Truthy(blob) /\ Loads(blob.s) # ValueError THEN Loads(blob.s) ELSE Dict(EmptyMap)

\* every freeze call starting from an empty diff
ExistingDiffFresh(environ) == Dict(EmptyMap)

\* _existing_diff(environ)
ExistingDiff(environ) == BlobDiff(Get(environ, VARIABLE_NAME))

\* diff.setdefault(name, environ.get(name)): an entry already there stays
RECURSIVE FreezeLoopKeepFirst(_, _, _)
FreezeLoopKeepFirst(m, environ, names) ==
    IF names = <<>> THEN m
    ELSE FreezeLoopKeepFirst(
             IF Head(names) \in DOMAIN m THEN m
             ELSE Put(m, Head(names), Get(environ, Head(names))),
             environ, Tail(names))

\* `for name in environ`: every variable of environ recorded, named or not
FreezeLoopAll(m, environ, names) ==
    [n \in DOMAIN m \cup (DOMAIN environ \ {VARIABLE_NAME}) \cup Range(names) |->
        IF n \in DOMAIN environ \/ n \in Range(names) THEN Get(environ, n) ELSE m[n]]

\* for name in names: diff[name] = environ.get(name)
RECURSIVE FreezeLoop(_, _, _)
FreezeLoop(m, environ, names) ==
    IF names = <<>> THEN m
    ELSE FreezeLoop(Put(m, Head(names), Get(environ, Head(names))), environ, Tail(names))

\* the object freeze serializes: the merged dict, the untouched non-dict when
\* names is empty, or the exception raised (a list, a number or None takes no
\* item assignment by name)
FrozenDiff(environ, names) ==
    LET diff == ExistingDiff(environ)
    IN  IF IsError(diff) THEN diff
        ELSE IF diff.t = "dict" THEN Dict(FreezeLoop(diff.m, environ, names))
        ELSE IF names = <<>> THEN diff
        ELSE [t |-> "TypeError"]

\* the key orders in which a dict may be iterated
KeyOrders(j) == IF j.t = "dict" THEN Perms(DOMAIN j.m) ELSE {<<>>}

\* freeze(environ, names): the environment afterwards and the exception, if any
FreezeResult(environ, names, keys) ==
    LET diff == FrozenDiff(environ, names)
    IN  IF IsError(diff) THEN [environ |-> environ, err |-> diff.t]
        ELSE [environ |-> Put(environ, VARIABLE_NAME, Dumps(diff, keys)), err |-> "none"]

\* a return inside the loop: the first item applied, the rest dropped
ApplyItemsFirstOnly(environ, m, keys) ==
    IF keys = <<>> THEN [environ |-> environ, err |-> "none"]
    ELSE LET k == Head(keys)
             v == m[k]
         IN  IF v.t = "none" THEN [environ |-> Pop(environ, k), err |-> "none"]
             ELSE IF v.t = "str" THEN [environ |-> Put(environ, k, v.s), err |-> "none"]
             ELSE [environ |-> environ, err |-> "TypeError"]

\* for k, v in diff.iteritems(): pop k when v is None, else os.environ[k] = v
\* (os.environ takes strings only)
RECURSIVE ApplyItems(_, _, _)
ApplyItems(environ, m, keys) ==
    IF keys = <<>> THEN [environ |-> environ, err |-> "none"]
    ELSE LET k == Head(keys)
             v == m[k]
         IN  IF v.t = "none" THEN ApplyItems(Pop(environ, k), m, Tail(keys))
             ELSE IF v.t = "str" THEN ApplyItems(Put(environ, k, v.s), m, Tail(keys))
             ELSE [environ |-> environ, err |-> "TypeError"]

\* os.environ.get in place of os.environ.pop: the reserved key stays
ApplyResultNoPop(environ, keys) ==
    LET diff == BlobDiff(Get(environ, VARIABLE_NAME))
    IN  IF IsError(diff) THEN [environ |-> environ, err |-> diff.t]
        ELSE IF ~Truthy(diff) THEN [environ |-> environ, err |-> "none"]
        ELSE IF diff.t # "dict" THEN [environ |-> environ, err |-> "AttributeError"]
        ELSE ApplyItems(environ, diff.m, keys)

\* apply_diff() on os.environ; keys is the order diff.iteritems() yields
ApplyResult(environ, keys) ==
    LET popped == Pop(environ, VARIABLE_NAME)
        diff   == BlobDiff(Get(environ, VARIABLE_NAME))
    IN  IF IsError(diff) THEN [environ |-> popped, err |-> diff.t]
        ELSE IF ~Truthy(diff) THEN [environ |-> popped, err |-> "none"]
        ELSE IF diff.t # "dict" THEN [environ |-> popped, err |-> "AttributeError"]
        ELSE ApplyItems(popped, diff.m, keys)

(***************************************************************************)
(* State.                                                                  *)
(***************************************************************************)
VARIABLES
    environ,      \* the environment mapping handed from launcher to child
    pre,          \* environ at entry to the last freeze or apply_diff call;
                  \* environ itself after an assignment by the launcher
    last,         \* the last operation, the exception it raised, and whether
                  \* it is an apply_diff call right after another one
    captured,     \* name -> its value (or None) at the last returned freeze
                  \* call that named it, of the diff last written; emptied
                  \* when environ is changed after that diff was applied
    named,        \* the names of the last freeze call that returned
    overwritten,  \* names captured again with another value in that generation
    consumed,     \* apply_diff has run since the last freeze call that returned
    applies       \* number of apply_diff calls so far

vars == <<environ, pre, last, captured, named, overwritten, consumed, applies>>

\* the value of name in env, None when it is unset
Snapshot(env, name) == IF name \in DOMAIN env THEN Str(env[name]) ELSE None

\* the diff that the reserved key of env decodes to
StoredDiff(env) ==
    IF VARIABLE_NAME \in DOMAIN env /\ env[VARIABLE_NAME] # <<>>
    THEN Loads(env[VARIABLE_NAME])
    ELSE Dict(EmptyMap)

\* the environments over the names N
Envs(N) == UNION {[S -> Values] : S \in SUBSET N}

InitOver(N) ==
    /\ \E e \in Envs(N) :
          \/ environ = e
          \/ \E b \in ForeignBlobs : environ = Put(e, VARIABLE_NAME, b)
    /\ pre = environ
    /\ last = [op |-> "init", err |-> "none", again |-> FALSE]
    /\ captured = EmptyMap
    /\ named = {}
    /\ overwritten = {}
    /\ consumed = FALSE
    /\ applies = 0

\* the launcher calls freeze(environ, names)
Freeze(names) ==
    /\ \E keys \in KeyOrders(FrozenDiff(environ, names)) :
          LET r   == FreezeResult(environ, names, keys)
              old == IF consumed THEN EmptyMap ELSE captured
          IN  /\ environ' = r.environ
              /\ last' = [op |-> "freeze", err |-> r.err, again |-> FALSE]
              /\ IF r.err # "none"
                 THEN UNCHANGED <<captured, named, overwritten, consumed>>
                 ELSE /\ captured' = [n \in DOMAIN old \cup Range(names) |->
                                        IF n \in Range(names) THEN Snapshot(environ, n)
                                                              ELSE old[n]]
                      /\ named' = Range(names)
                      /\ overwritten' =
                            (IF consumed THEN {} ELSE overwritten)
                            \cup {n \in Range(names) \cap DOMAIN old :
                                     old[n] # Snapshot(environ, n)}
                      /\ consumed' = FALSE
    /\ pre' = environ
    /\ UNCHANGED applies

\* a change of environ after apply_diff ends the record of the applied diff
Forget ==
    /\ IF consumed
       THEN captured' = EmptyMap /\ named' = {} /\ overwritten' = {}
       ELSE UNCHANGED <<captured, named, overwritten>>
    /\ UNCHANGED <<consumed, applies>>

\* the launcher assigns environ[name] = value
SetVar(name, value) ==
    /\ environ' = Put(environ, name, value)
    /\ pre' = environ'
    /\ last' = [op |-> "set", err |-> "none", again |-> FALSE]
    /\ Forget

\* the launcher removes name from environ
DelVar(name) ==
    /\ name \in DOMAIN environ
    /\ environ' = Pop(environ, name)
    /\ pre' = environ'
    /\ last' = [op |-> "del", err |-> "none", again |-> FALSE]
    /\ Forget

\* the child interpreter starts: _setup() calls apply_diff()
ApplyDiff ==
    /\ applies < MaxApply
    /\ \E keys \in KeyOrders(BlobDiff(Get(environ, VARIABLE_NAME))) :
          LET r == ApplyResult(environ, keys)
          IN  /\ environ' = r.environ
              /\ last' = [op |-> "apply", err |-> r.err, again |-> last.op = "apply"]
    /\ pre' = environ
    /\ consumed' = TRUE
    /\ applies' = applies + 1
    /\ UNCHANGED <<captured, named, overwritten>>

\* a launcher with two variables, freeze calls with any of them
Init == InitOver(TwoNames)

Next ==
    \/ \E names \in NameSeqs(TwoNames) : Freeze(names)
    \/ \E name \in TwoNames, value \in Values : SetVar(name, value)
    \/ \E name \in TwoNames : DelVar(name)
    \/ ApplyDiff

Spec == Init /\ [][Next]_vars

\* a launcher with three variables that freezes all three in one call, in any
\* order of the names
FreezeAll == \E names \in Perms(Names) : captured = EmptyMap /\ ~consumed /\ Freeze(names)

InitMulti == InitOver(Names)

NextMulti ==
    \/ FreezeAll
    \/ \E name \in Names, value \in Values : SetVar(name, value)
    \/ \E name \in Names : DelVar(name)
    \/ ApplyDiff

SpecMulti == InitMulti /\ [][NextMulti]_vars

(***************************************************************************)
(* Properties.                                                             *)
(***************************************************************************)
Applied == last.op = "apply"
Froze == last.op = "freeze" /\ last.err = "none"

\* the reserved key of env holds non-empty text that json.loads rejects
Malformed(env) ==
    /\ VARIABLE_NAME \in DOMAIN env
    /\ env[VARIABLE_NAME] # <<>>
    /\ Loads(env[VARIABLE_NAME]) = ValueError

\* number of places in text where pat starts
Occurrences(pat, text) ==
    Cardinality({i \in 1..Len(text) :
                    /\ i + Len(pat) - 1 <= Len(text)
                    /\ SubSeq(text, i, i + Len(pat) - 1) = pat})

\* C1: a variable that was set when freeze named it holds the frozen value
\* again after apply_diff, whatever it was set to in between.
RoundTrip ==
    Applied =>
        \A n \in DOMAIN captured :
            captured[n].t = "str" =>
                /\ last.err = "none"
                /\ n \in DOMAIN environ
                /\ environ[n] = captured[n].s

\* a frozen value with characters JSON escapes, changed since, is back
RoundTripWitness ==
    /\ Applied
    /\ \E n \in DOMAIN captured :
          /\ captured[n] = Str(<<"\"", "\\">>)
          /\ n \in DOMAIN pre
          /\ pre[n] # captured[n].s
          /\ environ[n] = captured[n].s

\* C2: a name unset at freeze time is recorded as null and freeze does not
\* raise for it; apply_diff then leaves the name unset without raising,
\* whether or not it was set in between.
DeletionRestore ==
    /\ Froze =>
          \A n \in named :
              n \notin DOMAIN pre =>
                  LET d == StoredDiff(environ)
                  IN  d.t = "dict" /\ n \in DOMAIN d.m /\ d.m[n] = None
    /\ (last.op = "freeze" /\ last.err # "none") => StoredDiff(pre).t # "dict"
    /\ Applied =>
          \A n \in DOMAIN captured :
              captured[n] = None => last.err = "none" /\ n \notin DOMAIN environ

\* one name frozen unset and set since is removed, another frozen unset and
\* still unset stays so
DeletionRestoreWitness ==
    /\ Applied
    /\ last.err = "none"
    /\ \E n, k \in DOMAIN captured :
          /\ captured[n] = None /\ n \in DOMAIN pre /\ n \notin DOMAIN environ
          /\ captured[k] = None /\ k \notin DOMAIN pre /\ k \notin DOMAIN environ

\* C3: a name frozen again with another value has one entry in the stored
\* diff, the value of the later call, and apply_diff restores that value.
LastWriteWins ==
    /\ Froze =>
          \A n \in named \cap overwritten :
              LET d == StoredDiff(environ)
              IN  /\ d.t = "dict" /\ n \in DOMAIN d.m
                  /\ d.m[n] = Snapshot(pre, n)
                  /\ Occurrences(Quote(n) \o <<":">>, environ[VARIABLE_NAME]) = 1
    /\ Applied =>
          \A n \in overwritten :
              last.err = "none" /\ Snapshot(environ, n) = captured[n]

\* a name whose second capture differs from the first, restored to the second
LastWriteWinsWitness ==
    /\ Applied
    /\ \E n \in overwritten :
          /\ Snapshot(pre, n) # captured[n]
          /\ Snapshot(environ, n) = captured[n]

\* C4: three names frozen in one call, in any order of the names, are each
\* back at their frozen value or absence after apply_diff, in any order of
\* iteration over the diff.
MultiRestore ==
    (Applied /\ DOMAIN captured = Names) =>
        /\ last.err = "none"
        /\ \A n \in Names : Snapshot(environ, n) = captured[n]

\* all three were changed after freeze and all three are back
MultiRestoreWitness ==
    /\ Applied
    /\ DOMAIN captured = Names
    /\ \A n \in Names : Snapshot(pre, n) # captured[n] /\ Snapshot(environ, n) = captured[n]
    /\ \E n \in Names : captured[n] = None
    /\ \E n \in Names : captured[n] # None

\* C5: after an apply_diff that returns, the reserved key is unset, and an
\* apply_diff call right after it changes nothing.
ConsumedOnce ==
    /\ (Applied /\ last.err = "none") => VARIABLE_NAME \notin DOMAIN environ
    /\ (Applied /\ last.again) => (last.err = "none" /\ environ = pre)

\* a diff written by freeze was applied, and apply_diff ran once more
ConsumedOnceWitness ==
    /\ Applied
    /\ last.again
    /\ captured # EmptyMap
    /\ environ = pre

\* C6: apply_diff on an environment without the reserved key returns and
\* leaves every variable as it was.
NoOpApply ==
    (Applied /\ VARIABLE_NAME \notin DOMAIN pre) =>
        last.err = "none" /\ environ = pre

\* apply_diff ran without the reserved key, other variables being set
NoOpApplyWitness ==
    /\ Applied
    /\ ~last.again
    /\ VARIABLE_NAME \notin DOMAIN pre
    /\ DOMAIN pre # {}

\* C7 as claimed: on text that is no JSON apply_diff raises the decoding
\* error and the environment is as before the call.
MalformedApplyUntouched ==
    (Applied /\ Malformed(pre)) =>
        last.err = "ValueError" /\ environ = pre

\* C7 as amended: on text that is no JSON apply_diff raises the decoding
\* error having removed the reserved key and nothing else.
MalformedApplyPopsOnly ==
    (Applied /\ Malformed(pre)) =>
        last.err = "ValueError" /\ environ = Pop(pre, VARIABLE_NAME)

\* apply_diff failed on malformed text next to variables that are set
MalformedApplyWitness ==
    /\ Applied
    /\ Malformed(pre)
    /\ last.err = "ValueError"
    /\ DOMAIN pre # {VARIABLE_NAME}

\* C8: freeze on a reserved key holding text that is no JSON raises the
\* decoding error for any names and leaves environ as it was; with the
\* reserved key unset or empty it returns, the diff holding the names of
\* this call only.
MalformedFreeze ==
    /\ (last.op = "freeze" /\ Malformed(pre)) =>
          last.err = "ValueError" /\ environ = pre
    /\ (last.op = "freeze" /\ (VARIABLE_NAME \notin DOMAIN pre \/ pre[VARIABLE_NAME] = <<>>)) =>
          /\ last.err = "none"
          /\ StoredDiff(environ) = Dict([n \in named |-> Snapshot(pre, n)])

\* freeze failed on malformed text next to variables that are set
MalformedFreezeWitness ==
    /\ last.op = "freeze"
    /\ Malformed(pre)
    /\ last.err = "ValueError"
    /\ environ = pre
    /\ DOMAIN pre # {VARIABLE_NAME}

\* C9: after a second freeze the stored diff has the names of both calls;
\* a name of the first call only keeps its entry, a name of the second has
\* its value at the second call; apply_diff restores the first-call values.
MergeRetention ==
    /\ (Froze /\ StoredDiff(pre).t = "dict") =>
          LET d0 == StoredDiff(pre)
              d  == StoredDiff(environ)
          IN  /\ d.t = "dict"
              /\ DOMAIN d.m = DOMAIN d0.m \cup named
              /\ DOMAIN d.m = DOMAIN captured
              /\ \A n \in DOMAIN d.m \ named : d.m[n] = d0.m[n] /\ d.m[n] = captured[n]
              /\ \A n \in named : d.m[n] = Snapshot(pre, n)
    /\ Applied =>
          \A n \in DOMAIN captured \ named :
              last.err = "none" /\ Snapshot(environ, n) = captured[n]

\* a name of the first call only, changed before the second call, is
\* restored to its value at the first call
MergeRetentionWitness ==
    /\ Applied
    /\ named # {}
    /\ \E n \in DOMAIN captured \ named :
          /\ Snapshot(pre, n) # captured[n]
          /\ Snapshot(environ, n) = captured[n]

\* C10: apply_diff leaves every variable but the reserved key and the names
\* frozen for this diff as it was right before the call.
OnlyFlaggedReset ==
    Applied =>
        \A n \in (DOMAIN pre \cup DOMAIN environ) \ ({VARIABLE_NAME} \cup DOMAIN captured) :
            Snapshot(environ, n) = Snapshot(pre, n)

\* apply_diff restored a frozen name and left a set, never frozen one alone
OnlyFlaggedResetWitness ==
    /\ Applied
    /\ last.err = "none"
    /\ \E n \in DOMAIN captured : Snapshot(environ, n) # Snapshot(pre, n)
    /\ \E n \in DOMAIN pre \ ({VARIABLE_NAME} \cup DOMAIN captured) : environ[n] = pre[n]

====
